---- MODULE Spec2Model ----
(***************************************************************************)
(* Model of server/main.py: the fake-JWT codec (make_jwt, decode_jwt), the *)
(* identity resolver (get_current_user), login, profile and the note       *)
(* store (list_notes, create_note).                                        *)
(*                                                                         *)
(* Python str and bytes values are sequences of code points (naturals).    *)
(* Python objects are tagged records [t |-> <type name>, v |-> <payload>]. *)
(***************************************************************************)
EXTENDS Integers, Sequences, FiniteSets, TLC

VARIABLES
  notes,     \* the rows of table notes
  seq,       \* sqlite_sequence: the largest id AUTOINCREMENT has handed out
  now,       \* the clock, int(time.time())
  inflight,  \* per client: a create_note request between dependency and body
  resp,      \* the response sent last
  prev,      \* the login response sent before the last login response
  cpc,       \* codec harness: "ready", "given", "minted" or "decoded"
  minted,    \* codec harness: the email and time make_jwt was applied to
  tokA, tokB,  \* codec harness: the two tokens under decode
  outA, outB   \* codec harness: what decoding and resolving each token gave

vars == <<notes, seq, now, inflight, resp, prev, cpc, minted, tokA, tokB, outA, outB>>
codecVars == <<cpc, minted, tokA, tokB, outA, outB>>
storeVars == <<notes, seq, inflight>>

----------------------------------------------------------------------------
(* Characters *)

\* Printable ASCII in code point order: 32..95 and 97..126 (the strings of the
\* model never name code point 96).
AsciiLow ==
  << " ", "!", "\"", "#", "$", "%", "&", "'", "(", ")", "*", "+", ",", "-", ".", "/",
     "0", "1", "2", "3", "4", "5", "6", "7", "8", "9", ":", ";", "<", "=", ">", "?",
     "@", "A", "B", "C", "D", "E", "F", "G", "H", "I", "J", "K", "L", "M", "N", "O",
     "P", "Q", "R", "S", "T", "U", "V", "W", "X", "Y", "Z", "[", "\\", "]", "^", "_" >>

AsciiHigh ==
  << "a", "b", "c", "d", "e", "f", "g", "h", "i", "j", "k", "l", "m", "n", "o",
     "p", "q", "r", "s", "t", "u", "v", "w", "x", "y", "z", "{", "|", "}", "~" >>

Ord(c) ==
  IF \E i \in 1..Len(AsciiLow) : AsciiLow[i] = c
  THEN 31 + (CHOOSE i \in 1..Len(AsciiLow) : AsciiLow[i] = c)
  ELSE 96 + (CHOOSE i \in 1..Len(AsciiHigh) : AsciiHigh[i] = c)

\* The sequence f as an explicit tuple: the same value, held element by element
\* instead of as a rule to re-evaluate at every index.
AsTuple(f) == SubSeq(f, 1, Len(f))

\* A literal: the code points of a tuple of one-character strings.
Str(t) == AsTuple([i \in 1..Len(t) |-> Ord(t[i])])

\* The code points the code and the libraries it calls name, as ord() gives
\* them: "." is 46, "=" is 61, " " is 32, the double quote is 34, and so on.
Ch ==
  [ dot |-> 46, eq |-> 61, sp |-> 32, quote |-> 34,
    bslash |-> 92, slash |-> 47, plus |-> 43, minus |-> 45,
    under |-> 95, lbrace |-> 123, rbrace |-> 125,
    lbrack |-> 91, rbrack |-> 93, comma |-> 44, colon |-> 58,
    zero |-> 48, nine |-> 57, ua |-> 65, uz |-> 90,
    uf |-> 70, la |-> 97, lz |-> 122, lf |-> 102,
    lb |-> 98, ln |-> 110, lr |-> 114, lt |-> 116, lu |-> 117,
    tab |-> 9, nl |-> 10, cr |-> 13, bs |-> 8, ff |-> 12 ]

----------------------------------------------------------------------------
(* Python values *)

PyNone == [t |-> "None", v |-> <<>>]
PyBool(b) == [t |-> "bool", v |-> b]
PyInt(n) == [t |-> "int", v |-> n]
PyStr(s) == [t |-> "str", v |-> s]
PyList(l) == [t |-> "list", v |-> l]
\* A dict is its items in insertion order: a sequence of <<key, value>>, keys
\* distinct.
PyDict(items) == [t |-> "dict", v |-> items]

\* bool(x), as `if x`, `not x`, `x and y`, `x or y` evaluate it.
Truthy(x) ==
  CASE x.t = "None" -> FALSE
    [] x.t = "bool" -> x.v
    [] x.t = "int" -> x.v # 0
    [] OTHER -> Len(x.v) > 0

DictHas(items, k) == \E i \in 1..Len(items) : items[i][1] = k
DictGet(items, k) == items[CHOOSE i \in 1..Len(items) : items[i][1] = k][2]
\* d[k] = v: an existing key keeps its place.
DictSet(items, k, val) ==
  IF DictHas(items, k)
  THEN AsTuple([i \in 1..Len(items) |-> IF items[i][1] = k THEN <<k, val>> ELSE items[i]])
  ELSE Append(items, <<k, val>>)

----------------------------------------------------------------------------
(* str methods *)

\* The indices of s that satisfy Test, in increasing order.
Indices(s, Test(_)) == SelectSeq(AsTuple([i \in 1..Len(s) |-> i]), Test)

\* s.split(sep) for a one-character sep: the segments between the separators
\* (one more segment than separators; the empty string gives one empty segment).
split(s, sep) ==
  LET at == Indices(s, LAMBDA i : s[i] = sep)
  IN AsTuple([k \in 1..(Len(at) + 1) |->
       SubSeq(s, IF k = 1 THEN 1 ELSE at[k - 1] + 1,
                 IF k = Len(at) + 1 THEN Len(s) ELSE at[k] - 1)])

\* s.split(sep, 1): at most one split, at the first separator.
split1(s, sep) ==
  IF \E i \in 1..Len(s) : s[i] = sep
  THEN LET k == CHOOSE i \in 1..Len(s) : s[i] = sep /\ \A j \in 1..(i - 1) : s[j] # sep
       IN <<SubSeq(s, 1, k - 1), SubSeq(s, k + 1, Len(s))>>
  ELSE <<s>>

\* s.lower() (ASCII letters; the other code points of the model have no case).
lower(s) ==
  AsTuple([i \in 1..Len(s) |-> IF s[i] >= Ch.ua /\ s[i] <= Ch.uz THEN s[i] + 32 ELSE s[i]])

startswith(s, prefix) ==
  Len(s) >= Len(prefix) /\ SubSeq(s, 1, Len(prefix)) = prefix

\* s.strip(c) for a one-character c: c removed from both ends.
RECURSIVE lstrip(_, _)
lstrip(s, c) == IF Len(s) > 0 /\ s[1] = c THEN lstrip(Tail(s), c) ELSE s

RECURSIVE rstrip(_, _)
rstrip(s, c) ==
  IF Len(s) > 0 /\ s[Len(s)] = c THEN rstrip(SubSeq(s, 1, Len(s) - 1), c) ELSE s

strip(s, c) == rstrip(lstrip(s, c), c)

\* c * n
Repeat(c, n) == AsTuple([i \in 1..n |-> c])

\* sep.join(parts)
RECURSIVE join(_, _)
join(parts, sep) ==
  IF Len(parts) = 0 THEN <<>>
  ELSE IF Len(parts) = 1 THEN parts[1]
  ELSE parts[1] \o <<sep>> \o join(Tail(parts), sep)

----------------------------------------------------------------------------
(* base64.urlsafe_b64encode / urlsafe_b64decode *)

\* The URL-safe alphabet: A-Z a-z 0-9 - _
B64Char(v) ==
  IF v < 26 THEN Ch.ua + v
  ELSE IF v < 52 THEN Ch.la + (v - 26)
  ELSE IF v < 62 THEN Ch.zero + (v - 52)
  ELSE IF v = 62 THEN Ch.minus
  ELSE Ch.under

\* binascii.b2a_base64 over the URL-safe alphabet, "=" padded: three bytes
\* make four characters; a last group of one or two bytes is padded.
urlsafe_b64encode(bs) ==
  LET n == Len(bs)
      At(k) == IF k <= n THEN bs[k] ELSE 0
  IN AsTuple([j \in 1..(4 * ((n + 2) \div 3)) |->
       LET g == 3 * ((j - 1) \div 4)
           pos == (j - 1) % 4
       IN CASE pos = 0 -> B64Char(At(g + 1) \div 4)
            [] pos = 1 -> B64Char((At(g + 1) % 4) * 16 + At(g + 2) \div 16)
            [] pos = 2 ->
                 IF g + 2 > n THEN Ch.eq
                 ELSE B64Char((At(g + 2) % 16) * 4 + At(g + 3) \div 64)
            [] OTHER -> IF g + 3 > n THEN Ch.eq ELSE B64Char(At(g + 3) % 64)])

\* The decoder's table after urlsafe_b64decode has translated "-" to "+" and
\* "_" to "/": both spellings of 62 and 63 are data; 64 marks a character that
\* is not in the alphabet.
B64Val(c) ==
  IF c >= Ch.ua /\ c <= Ch.uz THEN c - Ch.ua
  ELSE IF c >= Ch.la /\ c <= Ch.lz THEN c - Ch.la + 26
  ELSE IF c >= Ch.zero /\ c <= Ch.nine THEN c - Ch.zero + 52
  ELSE IF c = Ch.plus \/ c = Ch.minus THEN 62
  ELSE IF c = Ch.slash \/ c = Ch.under THEN 63
  ELSE 64

\* A decoding result or a raised exception.
Raised == [ok |-> FALSE, v |-> <<>>]
Returned(x) == [ok |-> TRUE, v |-> x]

\* binascii.a2b_base64 in its default, non-strict mode. Its loop reads s left to
\* right with quad_pos (the data characters read, modulo 4) and pads (the "="
\* seen since the last data character, counted while quad_pos >= 2):
\*   - a character outside the alphabet is skipped;
\*   - at an "=" with quad_pos >= 2 and quad_pos + pads >= 4 the input ends;
\*   - a data character adds its six bits, every four of them making three
\*     bytes (two make one byte, three make two);
\*   - a quad left incomplete at the end of the input raises binascii.Error.
IsData(c) == c # Ch.eq /\ B64Val(c) # 64

\* quad_pos when the loop reaches s[i].
QuadPos(s, i) == Cardinality({j \in 1..(i - 1) : IsData(s[j])}) % 4

\* pads once the loop has read the "=" at s[i].
PadsAt(s, i) ==
  Cardinality({j \in 1..i : s[j] = Ch.eq /\ \A k \in j..i : ~IsData(s[k])})

\* The loop ends at s[i].
EndsAt(s, i) == s[i] = Ch.eq /\ QuadPos(s, i) >= 2 /\ QuadPos(s, i) + PadsAt(s, i) >= 4

\* The indices where the loop would end, in increasing order.
EndIndices(s) == Indices(s, LAMBDA i : EndsAt(s, i))

\* The six-bit values of the data characters of s.
DataValues(s) == AsTuple([k \in 1..Len(s) |-> B64Val(s[k])])

\* The bytes m data values make.
ByteCount(m) == 3 * (m \div 4) + (IF m % 4 = 0 THEN 0 ELSE (m % 4) - 1)

a2b_bytes(d) ==
  AsTuple([k \in 1..ByteCount(Len(d)) |->
    CASE (k - 1) % 3 = 0 ->
           d[4 * ((k - 1) \div 3) + 1] * 4 + d[4 * ((k - 1) \div 3) + 2] \div 16
      [] (k - 1) % 3 = 1 ->
           (d[4 * ((k - 1) \div 3) + 2] % 16) * 16 + d[4 * ((k - 1) \div 3) + 3] \div 4
      [] OTHER ->
           (d[4 * ((k - 1) \div 3) + 3] % 4) * 64 + d[4 * ((k - 1) \div 3) + 4]])

\* The result for the data values d read before the loop ended or ran out.
a2b_result(d, ended) ==
  IF ~ended /\ Len(d) % 4 # 0 THEN Raised ELSE Returned(a2b_bytes(d))

a2b_upto(s, ends) ==
  IF Len(ends) = 0
  THEN a2b_result(DataValues(SelectSeq(s, IsData)), FALSE)
  ELSE a2b_result(DataValues(SelectSeq(SubSeq(s, 1, ends[1] - 1), IsData)), TRUE)

a2b_base64(s) == a2b_upto(s, EndIndices(s))

\* base64.urlsafe_b64decode
urlsafe_b64decode(s) == a2b_base64(s)

----------------------------------------------------------------------------
(* json.dumps: default separators ", " and ": ", ensure_ascii *)

HexDigit(d) == IF d < 10 THEN Ch.zero + d ELSE Ch.la + (d - 10)

\* "\uXXXX" with four lower-case hex digits.
EscapeU(n) ==
  << Ch.bslash, Ch.lu, HexDigit(n \div 4096), HexDigit((n \div 256) % 16),
     HexDigit((n \div 16) % 16), HexDigit(n % 16) >>

\* json.encoder.py_encode_basestring_ascii, one code point.
EscapeChar(c) ==
  CASE c = Ch.bslash -> <<Ch.bslash, Ch.bslash>>
    [] c = Ch.quote -> <<Ch.bslash, Ch.quote>>
    [] c = Ch.bs -> <<Ch.bslash, Ch.lb>>
    [] c = Ch.ff -> <<Ch.bslash, Ch.lf>>
    [] c = Ch.nl -> <<Ch.bslash, Ch.ln>>
    [] c = Ch.cr -> <<Ch.bslash, Ch.lr>>
    [] c = Ch.tab -> <<Ch.bslash, Ch.lt>>
    [] c >= 32 /\ c <= 126 /\ c # Ch.bslash /\ c # Ch.quote -> <<c>>
    [] c >= 65536 ->
         EscapeU(55296 + (((c - 65536) \div 1024) % 1024))
           \o EscapeU(56320 + ((c - 65536) % 1024))
    [] OTHER -> EscapeU(c)

RECURSIVE EscapeAll(_)
EscapeAll(s) == IF Len(s) = 0 THEN <<>> ELSE EscapeChar(s[1]) \o EscapeAll(Tail(s))

dumps_str(s) == <<Ch.quote>> \o EscapeAll(s) \o <<Ch.quote>>

\* int.__repr__
RECURSIVE Digits(_)
Digits(n) ==
  IF n < 10 THEN <<Ch.zero + n>> ELSE Append(Digits(n \div 10), Ch.zero + (n % 10))

dumps_int(n) == IF n < 0 THEN <<Ch.minus>> \o Digits(0 - n) ELSE Digits(n)

RECURSIVE json_dumps(_)
RECURSIVE dumps_list(_)
RECURSIVE dumps_items(_)

dumps_list(l) ==
  IF Len(l) = 0 THEN <<>>
  ELSE IF Len(l) = 1 THEN json_dumps(l[1])
  ELSE json_dumps(l[1]) \o <<Ch.comma, Ch.sp>> \o dumps_list(Tail(l))

dumps_items(items) ==
  IF Len(items) = 0 THEN <<>>
  ELSE LET one == dumps_str(items[1][1]) \o <<Ch.colon, Ch.sp>> \o json_dumps(items[1][2])
       IN IF Len(items) = 1 THEN one
          ELSE one \o <<Ch.comma, Ch.sp>> \o dumps_items(Tail(items))

json_dumps(x) ==
  CASE x.t = "None" -> Str(<<"n", "u", "l", "l">>)
    [] x.t = "bool" ->
         IF x.v THEN Str(<<"t", "r", "u", "e">>) ELSE Str(<<"f", "a", "l", "s", "e">>)
    [] x.t = "int" -> dumps_int(x.v)
    [] x.t = "str" -> dumps_str(x.v)
    [] x.t = "list" -> <<Ch.lbrack>> \o dumps_list(x.v) \o <<Ch.rbrack>>
    [] OTHER -> <<Ch.lbrace>> \o dumps_items(x.v) \o <<Ch.rbrace>>

\* str.encode(): UTF-8. json.dumps output is ASCII, one byte per code point;
\* the two-byte form covers the other literals of the model.
RECURSIVE encode_range(_, _, _)
encode_range(s, lo, hi) ==
  IF lo > hi THEN <<>>
  ELSE IF lo = hi THEN
    IF s[lo] < 128 THEN <<s[lo]>> ELSE <<192 + (s[lo] \div 64), 128 + (s[lo] % 64)>>
  ELSE LET mid == (lo + hi) \div 2
       IN encode_range(s, lo, mid) \o encode_range(s, mid + 1, hi)

encode(s) == encode_range(s, 1, Len(s))

----------------------------------------------------------------------------
(* json.loads of bytes *)

\* bytes.decode("utf-8", "surrogatepass"), which json.loads applies to bytes
\* that carry no byte order mark and no NUL among the first bytes (every
\* payload of the model): Raised stands for UnicodeDecodeError. A byte that is
\* not a continuation byte (128..191) begins a code point of 1 to 4 bytes; the
\* input is valid when every such byte is a valid lead, is followed by exactly
\* its continuation bytes, and the first byte is a lead.
IsCont(bs, i) == i <= Len(bs) /\ bs[i] >= 128 /\ bs[i] <= 191

Utf8Width(b) ==
  IF b < 128 THEN 1
  ELSE IF b >= 194 /\ b <= 223 THEN 2
  ELSE IF b >= 224 /\ b <= 239 THEN 3
  ELSE IF b >= 240 /\ b <= 244 THEN 4
  ELSE 0

Utf8Valid(bs, i) ==
  /\ Utf8Width(bs[i]) > 0
  /\ \A k \in (i + 1)..(i + Utf8Width(bs[i]) - 1) : IsCont(bs, k)
  /\ ~IsCont(bs, i + Utf8Width(bs[i]))
  /\ bs[i] = 224 => bs[i + 1] >= 160
  /\ bs[i] = 240 => bs[i + 1] >= 144
  /\ bs[i] = 244 => bs[i + 1] <= 143

Utf8CodePoint(bs, i) ==
  CASE bs[i] < 128 -> bs[i]
    [] bs[i] < 224 -> (bs[i] - 192) * 64 + (bs[i + 1] - 128)
    [] bs[i] < 240 ->
         (bs[i] - 224) * 4096 + (bs[i + 1] - 128) * 64 + (bs[i + 2] - 128)
    [] OTHER ->
         (bs[i] - 240) * 262144 + (bs[i + 1] - 128) * 4096 + (bs[i + 2] - 128) * 64
           + (bs[i + 3] - 128)

utf8_from(bs, leads) ==
  IF (Len(bs) > 0 /\ IsCont(bs, 1)) \/ \E k \in 1..Len(leads) : ~Utf8Valid(bs, leads[k])
  THEN Raised
  ELSE Returned(AsTuple([k \in 1..Len(leads) |-> Utf8CodePoint(bs, leads[k])]))

utf8_decode(bs) == utf8_from(bs, Indices(bs, LAMBDA i : ~IsCont(bs, i)))

\* A scanner result: the value and the index after it, or a JSONDecodeError.
ScanFail == [ok |-> FALSE, v |-> PyNone, i |-> 0]
ScanOk(x, i) == [ok |-> TRUE, v |-> x, i |-> i]

IsWs(c) == c = Ch.sp \/ c = Ch.tab \/ c = Ch.nl \/ c = Ch.cr

RECURSIVE skip_ws(_, _)
skip_ws(s, i) == IF i <= Len(s) /\ IsWs(s[i]) THEN skip_ws(s, i + 1) ELSE i

IsDigit(c) == c >= Ch.zero /\ c <= Ch.nine
IsHex(c) == IsDigit(c) \/ (c >= Ch.la /\ c <= Ch.lf) \/ (c >= Ch.ua /\ c <= Ch.uf)
HexVal(c) ==
  IF IsDigit(c) THEN c - Ch.zero
  ELSE IF c >= Ch.la THEN c - Ch.la + 10 ELSE c - Ch.ua + 10

\* Whether s[i..i+3] are four hex digits, and their value.
HasHex4(s, i) == i + 3 <= Len(s) /\ \A k \in i..(i + 3) : IsHex(s[k])
Hex4(s, i) ==
  HexVal(s[i]) * 4096 + HexVal(s[i + 1]) * 256 + HexVal(s[i + 2]) * 16 + HexVal(s[i + 3])

RECURSIVE scanstring(_, _, _)

\* "\uXXXX" at s[i..i+5] with value hi: a high surrogate followed by an
\* escaped low surrogate makes one code point.
scan_escape_u(s, i, acc, hi) ==
  IF hi >= 55296 /\ hi <= 56319 /\ i + 7 <= Len(s)
     /\ s[i + 6] = Ch.bslash /\ s[i + 7] = Ch.lu /\ HasHex4(s, i + 8)
     /\ Hex4(s, i + 8) >= 56320 /\ Hex4(s, i + 8) <= 57343
  THEN scanstring(s, i + 12,
         Append(acc, 65536 + (hi - 55296) * 1024 + (Hex4(s, i + 8) - 56320)))
  ELSE scanstring(s, i + 6, Append(acc, hi))

\* The escape at s[i] = "\" followed by e.
scan_escape(s, i, acc, e) ==
  IF e = Ch.lu THEN
    IF ~HasHex4(s, i + 2) THEN ScanFail ELSE scan_escape_u(s, i, acc, Hex4(s, i + 2))
  ELSE IF e = Ch.quote \/ e = Ch.bslash \/ e = Ch.slash THEN
    scanstring(s, i + 2, Append(acc, e))
  ELSE IF e = Ch.lb THEN scanstring(s, i + 2, Append(acc, Ch.bs))
  ELSE IF e = Ch.lf THEN scanstring(s, i + 2, Append(acc, Ch.ff))
  ELSE IF e = Ch.ln THEN scanstring(s, i + 2, Append(acc, Ch.nl))
  ELSE IF e = Ch.lr THEN scanstring(s, i + 2, Append(acc, Ch.cr))
  ELSE IF e = Ch.lt THEN scanstring(s, i + 2, Append(acc, Ch.tab))
  ELSE ScanFail

\* json.decoder.scanstring, strict: s[i] is the character after the opening
\* quote; the result's value is the unescaped text.
scanstring(s, i, acc) ==
  IF i > Len(s) THEN ScanFail
  ELSE IF s[i] = Ch.quote THEN ScanOk(acc, i + 1)
  ELSE IF s[i] < 32 THEN ScanFail
  ELSE IF s[i] # Ch.bslash THEN scanstring(s, i + 1, Append(acc, s[i]))
  ELSE IF i + 1 > Len(s) THEN ScanFail
  ELSE scan_escape(s, i, acc, s[i + 1])

\* The digits from s[i] on: the value read so far and the index after them.
RECURSIVE scan_digits(_, _, _)
scan_digits(s, i, n) ==
  IF i <= Len(s) /\ IsDigit(s[i]) THEN scan_digits(s, i + 1, n * 10 + (s[i] - Ch.zero))
  ELSE <<n, i>>

int_value(r, neg) == ScanOk(PyInt(IF neg THEN 0 - r[1] ELSE r[1]), r[2])

int_digits(s, j, neg) ==
  IF j > Len(s) \/ ~IsDigit(s[j]) THEN ScanFail
  ELSE IF s[j] = Ch.zero THEN ScanOk(PyInt(0), j + 1)
  ELSE int_value(scan_digits(s, j, 0), neg)

\* json.scanner NUMBER_RE, integer part: -?(0|[1-9]\d*). The model's payloads
\* carry no fraction, exponent, NaN or Infinity.
scan_int(s, i) ==
  IF i <= Len(s) /\ s[i] = Ch.minus THEN int_digits(s, i + 1, TRUE)
  ELSE int_digits(s, i, FALSE)

HasWord(s, i, w) == i + Len(w) - 1 <= Len(s) /\ SubSeq(s, i, i + Len(w) - 1) = w

RECURSIVE scan_once(_, _)
RECURSIVE scan_array(_, _, _)
RECURSIVE scan_object(_, _, _)

\* json.decoder.JSONArray: after a value, at s[j], "]" closes the array and
\* "," announces another value.
array_sep(s, j, acc) ==
  IF j > Len(s) THEN ScanFail
  ELSE IF s[j] = Ch.rbrack THEN ScanOk(PyList(acc), j + 1)
  ELSE IF s[j] = Ch.comma THEN scan_array(s, skip_ws(s, j + 1), acc)
  ELSE ScanFail

array_value(s, r, acc) ==
  IF ~r.ok THEN ScanFail ELSE array_sep(s, skip_ws(s, r.i), Append(acc, r.v))

\* s[i] starts a value of the array; acc holds the values read.
scan_array(s, i, acc) == array_value(s, scan_once(s, i), acc)

\* json.decoder.JSONObject: after a pair, at s[j], "}" closes the object and
\* "," announces another pair.
object_sep(s, j, items) ==
  IF j > Len(s) THEN ScanFail
  ELSE IF s[j] = Ch.rbrace THEN ScanOk(PyDict(items), j + 1)
  ELSE IF s[j] = Ch.comma THEN scan_object(s, skip_ws(s, j + 1), items)
  ELSE ScanFail

object_value(s, key, r, acc) ==
  IF ~r.ok THEN ScanFail ELSE object_sep(s, skip_ws(s, r.i), DictSet(acc, key, r.v))

object_colon(s, key, c, acc) ==
  IF c > Len(s) \/ s[c] # Ch.colon THEN ScanFail
  ELSE object_value(s, key, scan_once(s, skip_ws(s, c + 1)), acc)

object_key(s, k, acc) ==
  IF ~k.ok THEN ScanFail ELSE object_colon(s, k.v, skip_ws(s, k.i), acc)

\* One pair: s[i] must be the key's opening quote; acc holds the pairs read.
scan_object(s, i, acc) ==
  IF i > Len(s) \/ s[i] # Ch.quote THEN ScanFail
  ELSE object_key(s, scanstring(s, i + 1, <<>>), acc)

string_value(r) == IF r.ok THEN ScanOk(PyStr(r.v), r.i) ELSE ScanFail

object_open(s, j) ==
  IF j <= Len(s) /\ s[j] = Ch.rbrace THEN ScanOk(PyDict(<<>>), j + 1)
  ELSE scan_object(s, j, <<>>)

array_open(s, j) ==
  IF j <= Len(s) /\ s[j] = Ch.rbrack THEN ScanOk(PyList(<<>>), j + 1)
  ELSE scan_array(s, j, <<>>)

\* json.scanner.scan_once
scan_once(s, i) ==
  IF i > Len(s) THEN ScanFail
  ELSE IF s[i] = Ch.quote THEN string_value(scanstring(s, i + 1, <<>>))
  ELSE IF s[i] = Ch.lbrace THEN object_open(s, skip_ws(s, i + 1))
  ELSE IF s[i] = Ch.lbrack THEN array_open(s, skip_ws(s, i + 1))
  ELSE IF HasWord(s, i, Str(<<"n", "u", "l", "l">>)) THEN ScanOk(PyNone, i + 4)
  ELSE IF HasWord(s, i, Str(<<"t", "r", "u", "e">>)) THEN ScanOk(PyBool(TRUE), i + 4)
  ELSE IF HasWord(s, i, Str(<<"f", "a", "l", "s", "e">>)) THEN ScanOk(PyBool(FALSE), i + 5)
  ELSE scan_int(s, i)

\* JSONDecoder.decode: one value, and nothing but whitespace after it.
loads_value(text, r) ==
  IF ~r.ok THEN Raised
  ELSE IF skip_ws(text, r.i) <= Len(text) THEN Raised
  ELSE Returned(r.v)

loads_text(d) ==
  IF ~d.ok THEN Raised ELSE loads_value(d.v, scan_once(d.v, skip_ws(d.v, 1)))

\* json.loads(bytes): decode, skip whitespace, one value. Raised stands for
\* UnicodeDecodeError or JSONDecodeError.
json_loads(bs) == loads_text(utf8_decode(bs))

----------------------------------------------------------------------------
(* make_jwt, decode_jwt *)

KeyAlg == Str(<<"a", "l", "g">>)
KeyTyp == Str(<<"t", "y", "p">>)
KeyEmail == Str(<<"e", "m", "a", "i", "l">>)
KeyIat == Str(<<"i", "a", "t">>)

JwtHeader ==
  PyDict(<< <<KeyAlg, PyStr(Str(<<"n", "o", "n", "e">>))>>,
            <<KeyTyp, PyStr(Str(<<"J", "W", "T">>))>> >>)

SignatureBytes ==
  Str(<< "t", "o", "t", "a", "l", "l", "y", "-", "s", "e", "c", "u", "r", "e", "-",
         "s", "i", "g", "n", "a", "t", "u", "r", "e" >>)

\* base64.urlsafe_b64encode(x).decode().strip("=")
b64_nopad(bs) == strip(urlsafe_b64encode(bs), Ch.eq)

HeaderSegment == b64_nopad(encode(json_dumps(JwtHeader)))
SignatureSegment == b64_nopad(SignatureBytes)

\* The claim make_jwt serialises: {"email": email, "iat": int(time.time())}.
Claim(email, t) == PyDict(<< <<KeyEmail, PyStr(email)>>, <<KeyIat, PyInt(t)>> >>)

\* make_jwt(email) at time t.
make_jwt(email, t) ==
  join(<< HeaderSegment, b64_nopad(encode(json_dumps(Claim(email, t)))),
          SignatureSegment >>, Ch.dot)

\* A variant of pad that restores no padding.
pad_none(seg) == seg

\* parts[1] + "=" * (-len(parts[1]) % 4)
pad(seg) == seg \o Repeat(Ch.eq, (0 - Len(seg)) % 4)

\* Line 120, under the except clause of lines 121-123: the parsed payload, or
\* None when base64 decoding or json.loads raised.
decode_parsed(parsed) == IF ~parsed.ok THEN PyNone ELSE parsed.v

decode_raw(raw) == IF ~raw.ok THEN PyNone ELSE decode_parsed(json_loads(raw.v))

\* A variant of decode_parts that wants exactly three segments.
decode_parts_three(parts) ==
  IF Len(parts) # 3 THEN PyNone ELSE decode_raw(urlsafe_b64decode(pad(parts[2])))

\* A variant of decode_parts that wants the header segment make_jwt writes.
decode_parts_checked(parts) ==
  IF Len(parts) < 2 \/ parts[1] # HeaderSegment THEN PyNone
  ELSE decode_raw(urlsafe_b64decode(pad(parts[2])))

\* Lines 117-120, for the parts of the token.
decode_parts(parts) ==
  IF Len(parts) < 2 THEN PyNone ELSE decode_raw(urlsafe_b64decode(pad(parts[2])))

\* decode_jwt(token): the parsed payload, or None; every exception of the
\* body is caught by `except Exception` and turned into None.
decode_jwt(token) == decode_parts(split(token, Ch.dot))

----------------------------------------------------------------------------
(* get_current_user *)

\* A request as get_current_user reads it: the Authorization header, the
\* "token" query parameter and the "session" cookie, each None or a str.
Request(auth, query, cookie) == [auth |-> auth, query |-> query, cookie |-> cookie]

BearerPrefix == Str(<<"b", "e", "a", "r", "e", "r", " ">>)

\* Lines 128-130: the token the Authorization header gives, None or a str.
header_token(auth) ==
  IF Truthy(auth) /\ startswith(lower(auth.v), BearerPrefix)
  THEN PyStr(split1(auth.v, Ch.sp)[2])
  ELSE PyNone

\* `if not token: token = other`
or_else(token, other) == IF ~Truthy(token) THEN other ELSE token

\* Lines 127-134: the raw token, None or a str.
locate_token(request) ==
  or_else(or_else(header_token(request.auth), request.query), request.cookie)

\* needle in haystack, for two str.
IsSubstring(needle, hay) ==
  \E i \in 1..(Len(hay) - Len(needle) + 1) : SubSeq(hay, i, i + Len(needle) - 1) = needle

\* "email" in payload: Raised stands for TypeError (an int or a bool is not
\* iterable).
contains_email(payload) ==
  CASE payload.t = "dict" -> Returned(DictHas(payload.v, KeyEmail))
    [] payload.t = "list" ->
         Returned(\E i \in 1..Len(payload.v) :
                    payload.v[i].t = "str" /\ payload.v[i].v = KeyEmail)
    [] payload.t = "str" -> Returned(IsSubstring(KeyEmail, payload.v))
    [] OTHER -> Raised

\* payload["email"]: Raised stands for TypeError (a list or a str indexed by
\* a str).
get_email(payload) ==
  IF payload.t = "dict" THEN Returned(DictGet(payload.v, KeyEmail)) ELSE Raised

\* Lines 139-141, for the decoded payload.
resolve_payload(payload, has) ==
  IF ~has.ok THEN Raised
  ELSE IF has.v THEN get_email(payload)
  ELSE Returned(PyNone)

resolve_decoded(payload) ==
  IF ~Truthy(payload) THEN Returned(PyNone)
  ELSE resolve_payload(payload, contains_email(payload))

\* Lines 136-141: the identity a located token resolves to.
resolve_token(token) ==
  IF ~Truthy(token) THEN Returned(PyNone) ELSE resolve_decoded(decode_jwt(token.v))

\* get_current_user(request): Returned(identity or None), or Raised when the
\* coroutine raises.
get_current_user(request) == resolve_token(locate_token(request))

----------------------------------------------------------------------------
(* Responses: starlette's raw_headers and the two ways login sets a cookie *)

\* JSONResponse(...) starts with its content headers.
init_headers ==
  << <<"content-length", [text |-> "len"]>>,
     <<"content-type", [text |-> "application/json"]>> >>

\* Response.set_cookie appends one set-cookie header.
set_cookie(headers, key, value, attrs) ==
  Append(headers, <<"set-cookie", [cookie |-> key, value |-> value, attrs |-> attrs]>>)

\* response.headers[key] = value (MutableHeaders.__setitem__): the first header
\* of that name is replaced and its duplicates removed; the header is appended
\* when there is none.
headers_setitem(headers, key, value) ==
  LET found == Indices(headers, LAMBDA i : headers[i][1] = key)
  IN IF Len(found) = 0 THEN Append(headers, <<key, value>>)
     ELSE LET kept == Indices(headers,
                        LAMBDA i : headers[i][1] # key \/ i = found[1])
          IN AsTuple([k \in 1..Len(kept) |->
               IF kept[k] = found[1] THEN <<key, value>> ELSE headers[kept[k]]])

\* The cookies a response sets, by name.
HasCookie(headers, key, value) ==
  \E i \in 1..Len(headers) :
    /\ headers[i][1] = "set-cookie"
    /\ headers[i][2].cookie = key
    /\ headers[i][2].value = value

SetsNoCookie(headers) == \A i \in 1..Len(headers) : headers[i][1] # "set-cookie"

----------------------------------------------------------------------------
(* The note table *)

\* Rows per list_notes query: LIMIT 50.
ListLimit == 50

Max(S) == CHOOSE x \in S : \A y \in S : y <= x

\* A variant of next_rowid that issues the last id again.
rowid_reused(rows, last) == Max({last} \cup {r.id : r \in rows})

\* INTEGER PRIMARY KEY AUTOINCREMENT: one more than the largest id ever used.
next_rowid(rows, last) == Max({last} \cup {r.id : r \in rows}) + 1

\* Binding a Python value to the owner_email parameter of the INSERT: a str is
\* stored as it is; an int (a bool is one) gets the column's TEXT affinity and
\* is stored as its decimal text; sqlite3 raises for a list or a dict.
sqlite_bind_text(x) ==
  CASE x.t = "str" -> Returned(x.v)
    [] x.t = "int" -> Returned(dumps_int(x.v))
    [] x.t = "bool" -> Returned(dumps_int(IF x.v THEN 1 ELSE 0))
    [] OTHER -> Raised

\* A variant of select_recent that orders by ascending id.
select_oldest(rows) ==
  LET n == IF Cardinality(rows) < ListLimit THEN Cardinality(rows) ELSE ListLimit
  IN AsTuple([k \in 1..n |->
       CHOOSE r \in rows : Cardinality({q \in rows : q.id < r.id}) = k - 1])

\* SELECT id, content, owner_email, created_at FROM notes ORDER BY id DESC
\* LIMIT 50: the k-th row is the one with k - 1 rows of a larger id.
select_recent(rows) ==
  LET n == IF Cardinality(rows) < ListLimit THEN Cardinality(rows) ELSE ListLimit
  IN AsTuple([k \in 1..n |->
       CHOOSE r \in rows : Cardinality({q \in rows : q.id > r.id}) = k - 1])

Anonymous == Str(<<"a", "n", "o", "n", "y", "m", "o", "u", "s">>)

\* note.email or user or "anonymous"
owner_of(email, user) ==
  IF Truthy(PyStr(email)) THEN PyStr(email)
  ELSE IF Truthy(user) THEN user
  ELSE PyStr(Anonymous)

----------------------------------------------------------------------------
(* Inputs *)

\* The clock stops at MaxClock; the shared store holds at most MaxNotes rows;
\* the listing run inserts MaxInserts rows, one more than ListLimit.
MaxClock == 2
MaxNotes == 2
MaxInserts == 51

Clients == {1, 2}

EmailA == Str(<<"a", "@", "x">>)
EmailB == Str(<<"b">>)
EmailC == Str(<<"c", "@", "x">>)
\* A quote, a backslash, e-acute and a newline: what json.dumps escapes.
EmailOdd == <<Ch.quote, Ch.bslash, 233, Ch.nl>>

Emails == {<<>>, EmailA, EmailB, EmailOdd}
Passwords == {<<>>, Str(<<"p">>), Str(<<"q", "q">>)}
IatValues == {0, 7, 10, 1700000000}
Contents == {Str(<<"h", "i">>)}
NoteEmails == {<<>>, EmailA}

\* JSON values a caller can put in segment P.
PayloadValues ==
  << Claim(EmailA, 0), Claim(EmailA, 7),
    PyDict(<< <<KeyEmail, PyStr(EmailC)>> >>),
    PyDict(<< <<KeyEmail, PyStr(<<>>)>> >>),
    PyDict(<< <<KeyEmail, PyInt(5)>> >>),
    PyDict(<< <<KeyIat, PyInt(1)>> >>),
    PyDict(<<>>),
    PyList(<< PyStr(KeyEmail) >>),
    PyStr(KeyEmail),
    PyInt(5),
    PyBool(TRUE),
    PyNone >>

SegmentOf(x) == b64_nopad(encode(json_dumps(x)))

\* Segments that are base64url of valid JSON.
SegmentTable == AsTuple([i \in 1..Len(PayloadValues) |-> SegmentOf(PayloadValues[i])])
GoodSegments == {SegmentTable[i] : i \in 1..Len(PayloadValues)}

\* Segments that do not decode to valid JSON: one data character, no data
\* character, bytes that are not UTF-8 ("N+Q/"), and the base64url of text
\* that is not JSON: "{bad", "[1,]", "5 x".
BadSegments ==
  { Str(<<"A">>), <<>>, Str(<<"!", "!">>), Str(<<"N", "+", "Q", "/">>),
    b64_nopad(Str(<<"{", "b", "a", "d">>)),
    b64_nopad(Str(<<"[", "1", ",", "]">>)),
    b64_nopad(Str(<<"5", " ", "x">>)) }

OtherSegment == Str(<<"x">>)

\* The tokens built around a segment P: P alone, H.P, H.P.S, the same with
\* another first and third segment, and four segments.
Shapes(P) ==
  { P,
    join(<<HeaderSegment, P>>, Ch.dot),
    join(<<HeaderSegment, P, SignatureSegment>>, Ch.dot),
    join(<<OtherSegment, P, OtherSegment>>, Ch.dot),
    join(<<HeaderSegment, P, SignatureSegment, OtherSegment>>, Ch.dot) }

TokenInputs == UNION {Shapes(P) : P \in GoodSegments \cup BadSegments}

Forged(x) == join(<<OtherSegment, SegmentOf(x), OtherSegment>>, Ch.dot)

Bearer(tok) == PyStr(Str(<<"B", "e", "a", "r", "e", "r", " ">>) \o tok)

\* Raw tokens a request carries after "Bearer ".
HeaderTokens ==
  { <<>>, make_jwt(EmailA, 0), Str(<<"g", "a", "r", "b", "a", "g", "e">>),
    Forged(PyInt(5)), Forged(PyList(<< PyStr(KeyEmail) >>)),
    Forged(PyDict(<< <<KeyEmail, PyStr(<<>>)>> >>)),
    Forged(PyDict(<< <<KeyEmail, PyInt(5)>> >>)),
    Forged(PyDict(<< <<KeyEmail, PyList(<< PyInt(1) >>)>> >>)) }

AuthValues ==
  {PyNone}
    \cup {Bearer(tok) : tok \in HeaderTokens}
    \cup { PyStr(Str(<<"b", "e", "a", "r", "e", "r", " ">>) \o make_jwt(EmailA, 0)),
           PyStr(Str(<<"B", "a", "s", "i", "c", " ">>) \o make_jwt(EmailA, 0)) }
QueryValues == {PyNone, PyStr(make_jwt(EmailB, 0))}
CookieValues == {PyNone, PyStr(make_jwt(EmailC, 0))}

Requests ==
  {Request(a, q, c) : a \in AuthValues, q \in QueryValues, c \in CookieValues}

NoToken == Request(PyNone, PyNone, PyNone)

\* The requests of the two concurrent clients: no token, or a session cookie.
FewRequests == {Request(PyNone, PyNone, c) : c \in CookieValues}

----------------------------------------------------------------------------
(* State *)

Idle == [pc |-> "idle"]
NoResponse == [op |-> "none", status |-> 0]
NoMint == [made |-> FALSE]

Init ==
  /\ notes = {}
  /\ seq = 0
  /\ now = 0
  /\ inflight = [c \in Clients |-> Idle]
  /\ resp = NoResponse
  /\ prev = NoResponse
  /\ cpc = "ready"
  /\ minted = NoMint
  /\ tokA = <<>>
  /\ tokB = <<>>
  /\ outA = NoResponse
  /\ outB = NoResponse

\* get_current_user, make_jwt and the codec harness's Outcome, tabulated over
\* the inputs of the model: each is evaluated once per input.
ResolvedUser == [r \in Requests |-> get_current_user(r)]
TokenAt == [e \in Emails |-> [t \in 0..MaxClock |-> make_jwt(e, t)]]

Tick ==
  /\ now < MaxClock
  /\ now' = now + 1
  /\ UNCHANGED <<storeVars, resp, prev, codecVars>>

----------------------------------------------------------------------------
(* Handlers *)

\* Lines 150-161: the response of a successful login. set_cookie adds the
\* session cookie, then the Set-Cookie header is assigned.
login_response(email, password, token) ==
  [ op |-> "login", status |-> 200, email |-> email, password |-> password,
    at |-> now, token |-> token,
    headers |->
      headers_setitem(
        set_cookie(init_headers, "session", token, "Path=/; SameSite=None"),
        "set-cookie",
        [cookie |-> "alt_session", value |-> token, attrs |-> "Path=/; http_only=True"]) ]

\* A variant of missing_credentials that looks at the email only.
missing_email(email, password) == ~Truthy(PyStr(email))

\* Line 146: not body.email or not body.password
missing_credentials(email, password) ==
  ~Truthy(PyStr(email)) \/ ~Truthy(PyStr(password))

\* POST /api/login
login(email, password) ==
  /\ IF missing_credentials(email, password)
     THEN resp' = [op |-> "login", status |-> 400, email |-> email,
                   password |-> password, at |-> now,
                   detail |-> "Missing credentials", headers |-> <<>>]
     ELSE resp' = login_response(email, password, TokenAt[email][now])
  /\ prev' = IF resp.op = "login" THEN resp ELSE prev
  /\ UNCHANGED <<storeVars, now, codecVars>>

\* The body of profile for the resolved user; an exception of the dependency
\* leaves as a 500 response.
profile_response(request, user) ==
  IF ~user.ok
  THEN [op |-> "profile", status |-> 500, request |-> request]
  ELSE [op |-> "profile", status |-> 200, request |-> request,
        user |-> user.v, cookies |-> request.cookie]

\* GET /api/profile: the dependency get_current_user, then the body.
profile(request) ==
  /\ resp' = profile_response(request, ResolvedUser[request])
  /\ UNCHANGED <<storeVars, now, prev, codecVars>>

\* GET /api/notes
list_notes ==
  /\ resp' = [op |-> "list_notes", status |-> 200, body |-> select_recent(notes)]
  /\ UNCHANGED <<storeVars, now, prev, codecVars>>

\* The dependency of create_note has resolved the caller to `user`. The
\* request keeps `began`, the last id issued when its body was entered.
depends_done(c, content, email, request, user) ==
  IF ~user.ok
  THEN /\ resp' = [op |-> "create_note", client |-> c, status |-> 500,
                   content |-> content, email |-> email, request |-> request]
       /\ UNCHANGED inflight
  ELSE /\ inflight' = [inflight EXCEPT ![c] =
              [pc |-> "resolved", content |-> content, email |-> email,
               user |-> user.v, began |-> seq]]
       /\ UNCHANGED resp

\* POST /api/notes, first half: the dependency get_current_user resolves the
\* caller before the body runs; other requests may be served in between.
create_note_depends(c, content, email, request) ==
  /\ inflight[c].pc = "idle"
  /\ depends_done(c, content, email, request, ResolvedUser[request])
  /\ UNCHANGED <<notes, seq, now, prev, codecVars>>

\* POST /api/notes, second half: the body of create_note, with room for
\* `room` rows. A value sqlite3 cannot bind raises, and nothing is stored.
\* The response record keeps, beside the owner the handler returns, the
\* request it answers and the id of the row it inserted.
create_note(c, room) ==
  /\ inflight[c].pc = "resolved"
  /\ Cardinality(notes) < room
  /\ LET req == inflight[c]
         owner == owner_of(req.email, req.user)
         bound == sqlite_bind_text(owner)
         id == next_rowid(notes, seq)
     IN IF ~bound.ok
        THEN /\ resp' = [op |-> "create_note", client |-> c, status |-> 500,
                         content |-> req.content, email |-> req.email,
                         user |-> req.user]
             /\ UNCHANGED <<notes, seq>>
        ELSE /\ notes' = notes \cup
                  {[id |-> id, content |-> req.content, owner_email |-> bound.v,
                    created_at |-> now]}
             /\ seq' = id
             /\ resp' = [op |-> "create_note", client |-> c, status |-> 200,
                         content |-> req.content, email |-> req.email,
                         user |-> req.user, owner |-> owner, id |-> id,
                         began |-> req.began]
  /\ inflight' = [inflight EXCEPT ![c] = Idle]
  /\ UNCHANGED <<now, prev, codecVars>>

----------------------------------------------------------------------------
(* The codec applied to drawn inputs *)

\* What a token gives: decode_jwt's result, and the identity get_current_user
\* resolves when the token arrives by each of the three channels.
Outcome(tok) ==
  [ claim |-> decode_jwt(tok),
    header |-> get_current_user(Request(Bearer(tok), PyNone, PyNone)),
    query |-> get_current_user(Request(PyNone, PyStr(tok), PyNone)),
    cookie |-> get_current_user(Request(PyNone, PyNone, PyStr(tok))) ]

MintedTokens == {make_jwt(e, t) : e \in Emails, t \in IatValues}
OutcomeOf == [tok \in TokenInputs \cup MintedTokens |-> Outcome(tok)]

Present(a, b) ==
  /\ cpc = "ready"
  /\ cpc' = "given"
  /\ tokA' = a
  /\ tokB' = b
  /\ UNCHANGED <<minted, outA, outB, storeVars, now, resp, prev>>

Mint(email, t) ==
  /\ cpc = "ready"
  /\ cpc' = "minted"
  /\ minted' = [made |-> TRUE, email |-> email, iat |-> t]
  /\ tokA' = make_jwt(email, t)
  /\ tokB' = make_jwt(email, t)
  /\ UNCHANGED <<outA, outB, storeVars, now, resp, prev>>

Decode ==
  /\ cpc \in {"given", "minted"}
  /\ cpc' = "decoded"
  /\ outA' = OutcomeOf[tokA]
  /\ outB' = OutcomeOf[tokB]
  /\ UNCHANGED <<minted, tokA, tokB, storeVars, now, resp, prev>>

Reset ==
  /\ cpc = "decoded"
  /\ cpc' = "ready"
  /\ minted' = NoMint
  /\ tokA' = <<>>
  /\ tokB' = <<>>
  /\ outA' = NoResponse
  /\ outB' = NoResponse
  /\ UNCHANGED <<storeVars, now, resp, prev>>

----------------------------------------------------------------------------
(* Specifications *)

\* The codec on its own.
NextCodec ==
  \/ \E a \in TokenInputs, b \in TokenInputs : Present(a, b)
  \/ \E e \in Emails, t \in IatValues : Mint(e, t)
  \/ Decode
  \/ Reset

SpecCodec == Init /\ [][NextCodec]_vars

\* Sessions: login and profile, one request at a time.
NextAuth ==
  \/ Tick
  \/ \E e \in Emails, p \in Passwords : login(e, p)
  \/ \E r \in Requests : profile(r)

SpecAuth == Init /\ [][NextAuth]_vars

\* The note store, one request at a time, with every request of the model.
NextNotes ==
  \/ \E t \in Contents, e \in NoteEmails, r \in Requests :
       create_note_depends(1, t, e, r)
  \/ create_note(1, MaxNotes)
  \/ list_notes

SpecNotes == Init /\ [][NextNotes]_vars

\* The note store under two concurrent clients.
NextConcurrent ==
  \/ \E c \in Clients, t \in Contents, e \in NoteEmails, r \in FewRequests :
       create_note_depends(c, t, e, r)
  \/ \E c \in Clients : create_note(c, MaxNotes)
  \/ list_notes
  \/ \E e \in {<<>>, EmailA} : login(e, Str(<<"p">>))
  \/ \E r \in FewRequests : profile(r)

SpecConcurrent == Init /\ [][NextConcurrent]_vars

\* One client filling an empty store and listing it.
NextList ==
  \/ create_note_depends(1, Str(<<"h", "i">>), <<>>, NoToken)
  \/ create_note(1, MaxInserts)
  \/ list_notes

SpecList == Init /\ [][NextList]_vars

----------------------------------------------------------------------------
(* Properties *)

Parts(tok) == split(tok, Ch.dot)

\* A request whose Authorization header starts with "Bearer " in any case,
\* and the text T1 that follows those seven characters.
CarriesBearer(request) ==
  /\ request.auth.t = "str"
  /\ Len(request.auth.v) >= Len(BearerPrefix)
  /\ lower(SubSeq(request.auth.v, 1, Len(BearerPrefix))) = BearerPrefix

BearerToken(request) ==
  SubSeq(request.auth.v, Len(BearerPrefix) + 1, Len(request.auth.v))

\* C1: a request that carries "Authorization: Bearer T1" and a session cookie
\* T2 # T1 is answered from T1 alone, whatever T1 is: profile gives what T1
\* resolves to, never what T2 or the query parameter resolves to.
C1_HeaderTokenOnly ==
  ( /\ resp.op = "profile"
    /\ CarriesBearer(resp.request)
    /\ resp.request.cookie.t = "str"
    /\ resp.request.cookie.v # BearerToken(resp.request) )
  => resp = profile_response(resp.request,
                             resolve_token(PyStr(BearerToken(resp.request))))

\* C2: resolving the identity never aborts the request: every profile request
\* is answered, with a user or with none, and never fails.
C2_ResolutionNeverAborts == resp.op = "profile" => resp.status = 200

\* C3: the response of a successful login carries the session cookie and the
\* alt_session cookie, both holding the token.
C3_BothCookies ==
  (resp.op = "login" /\ resp.status = 200)
  => /\ HasCookie(resp.headers, "session", resp.token)
     /\ HasCookie(resp.headers, "alt_session", resp.token)

\* A token of exactly three segments whose second is the base64url of JSON.
WellFormed(tok) == Len(Parts(tok)) = 3 /\ Parts(tok)[2] \in GoodSegments

C5_OwnerPrecedence ==
  (resp.op = "create_note" /\ "user" \in DOMAIN resp)
  => /\ resp.status = 200
     /\ resp.owner = ( IF resp.email # <<>> THEN PyStr(resp.email)
                       ELSE IF resp.user # PyNone THEN resp.user
                       ELSE PyStr(Anonymous) )
     /\ \E n \in notes : n.id = resp.id /\ PyStr(n.owner_email) = resp.owner

\* C6: decode_jwt(make_jwt(e)) is a claim whose email is e and whose iat is
\* the integer time of minting, and the token resolves to e by the header,
\* by the query parameter and by the cookie.
C6_RoundTrip ==
  (cpc = "decoded" /\ minted.made)
  => /\ outA.claim.t = "dict"
     /\ DictHas(outA.claim.v, KeyEmail)
     /\ DictGet(outA.claim.v, KeyEmail) = PyStr(minted.email)
     /\ DictHas(outA.claim.v, KeyIat)
     /\ DictGet(outA.claim.v, KeyIat) = PyInt(minted.iat)
     /\ outA.header = Returned(PyStr(minted.email))
     /\ outA.query = Returned(PyStr(minted.email))
     /\ outA.cookie = Returned(PyStr(minted.email))

C6_OddEmailRoundTrip ==
  /\ cpc = "decoded"
  /\ minted.made
  /\ minted.email = EmailOdd
  /\ minted.iat = 1700000000
  /\ outA.cookie = Returned(PyStr(EmailOdd))

\* What list_notes returns for the rows of the store, of which n were
\* inserted: min(n, 50) rows of the store in strictly descending id, and no
\* row left out has an id above one returned.
Listed(body, rows, n) ==
  /\ Len(body) = IF n < 50 THEN n ELSE 50
  /\ \A i \in 1..Len(body) : body[i] \in rows
  /\ \A i, j \in 1..Len(body) : i < j => body[i].id > body[j].id
  /\ \A r \in rows :
       (\A i \in 1..Len(body) : body[i] # r)
         => \A i \in 1..Len(body) : r.id < body[i].id

\* C7: every answer of list_notes is the min(n, 50) notes of highest id, in
\* strictly descending id, n being the number of notes inserted so far.
C7_ListRecent ==
  [][(resp'.op = "list_notes" /\ resp' # resp)
       => Listed(resp'.body, notes', seq')]_vars

C7_FiftyOfFiftyOne ==
  /\ resp.op = "list_notes"
  /\ Cardinality(notes) = 51
  /\ Len(resp.body) = 50
  /\ resp.body[1].id = 51
  /\ resp.body[50].id = 2

\* The email a decoded claim holds.
EmailIn(claim) ==
  IF claim.t = "dict" /\ DictHas(claim.v, KeyEmail)
  THEN Returned(DictGet(claim.v, KeyEmail))
  ELSE Raised

\* C8: login answers 400, with no token and no cookie, exactly when the email
\* or the password is empty; otherwise it answers 200 with a token whose claim
\* holds the email, and two logins of one email at one time give the same
\* token and cookies whatever their passwords.
C8_LoginOutcome ==
  resp.op = "login"
  => /\ (resp.status = 400) <=> (resp.email = <<>> \/ resp.password = <<>>)
     /\ resp.status = 400
          => (SetsNoCookie(resp.headers) /\ "token" \notin DOMAIN resp)
     /\ resp.status # 400
          => /\ resp.status = 200
             /\ EmailIn(decode_jwt(resp.token)) = Returned(PyStr(resp.email))
     /\ ( /\ resp.status = 200
          /\ prev.op = "login"
          /\ prev.status = 200
          /\ prev.email = resp.email
          /\ prev.at = resp.at )
          => (prev.token = resp.token /\ prev.headers = resp.headers)

C8_TwoPasswordsOneToken ==
  /\ resp.op = "login"
  /\ resp.status = 200
  /\ prev.op = "login"
  /\ prev.status = 200
  /\ prev.email = resp.email
  /\ prev.at = resp.at
  /\ prev.password # resp.password
  /\ prev.token = resp.token

\* C9: two tokens of two or more segments with the same second segment decode
\* to the same result and resolve to the same identity by every channel; and
\* two claims with the same email resolve to the same identity, whatever
\* their iat.
C9_OnlyPayloadSegment ==
  (cpc = "decoded" /\ Len(Parts(tokA)) >= 2 /\ Len(Parts(tokB)) >= 2)
  => /\ Parts(tokA)[2] = Parts(tokB)[2] => outA = outB
     /\ (EmailIn(outA.claim).ok /\ EmailIn(outA.claim) = EmailIn(outB.claim))
          => /\ outA.header = outB.header
             /\ outA.query = outB.query
             /\ outA.cookie = outB.cookie

C9_ForgedEnvelopeSameIdentity ==
  /\ cpc = "decoded"
  /\ Len(Parts(tokA)) = 3
  /\ Len(Parts(tokB)) = 4
  /\ Parts(tokA)[1] # Parts(tokB)[1]
  /\ Parts(tokA)[2] = Parts(tokB)[2]
  /\ outA.header = Returned(PyStr(EmailC))
  /\ outA = outB

\* C10: every step keeps every stored note as it is and adds at most one,
\* whose id is above every stored id; stored ids are distinct; and a
\* successful create_note adds the note whose id it returns.
C10_AppendOnly ==
  [][ /\ notes \subseteq notes'
      /\ Cardinality(notes') <= Cardinality(notes) + 1
      /\ \A n \in notes' \ notes : \A m \in notes : n.id > m.id
      /\ \A n, m \in notes' : n.id = m.id => n = m
      /\ (resp'.op = "create_note" /\ resp'.status = 200 /\ resp' # resp)
           => \E n \in notes' \ notes : n.id = resp'.id ]_vars

\* A create_note that began before another request's insert and stored its
\* own note after it: the two ran concurrently, and both notes are stored.
C10_ConcurrentBothStored ==
  /\ resp.op = "create_note"
  /\ resp.status = 200
  /\ resp.began < resp.id - 1
  /\ \E n, m \in notes : n.id = resp.id /\ m.id = resp.id - 1

====
